---- MODULE Spec2Model ----
(***************************************************************************)
(* Model of the oneshot channel of src/src/oneshot.rs: one producer handle *)
(* (Complete) and one consumer handle (Oneshot) sharing an Inner block     *)
(* made of an atomic flag and three try-lock cells.  Every atomic access   *)
(* (a SeqCst load or store, a try_lock, the release of a guard) is one     *)
(* step, and the two handles interleave freely.                            *)
(***************************************************************************)
EXTENDS Integers, Sequences, FiniteSets, TLC

\* ---- bounds ------------------------------------------------------------
NumValues == 2        \* values the producer may pass to complete()
NumTasks == 2         \* tasks each handle may be polled from
MaxPolls == 3         \* poll() calls made without a notification
MaxPollCancels == 2   \* poll_cancel() calls made without a notification

Values == 1 .. NumValues
None == 0
NoTask == <<>>
RxTasks == {<<"rx", i>> : i \in 1 .. NumTasks}
TxTasks == {<<"tx", i>> : i \in 1 .. NumTasks}

VARIABLES
    complete,     \* Inner.complete
    data,         \* Inner.data content: None or a value
    dataLock,     \* holder of Inner.data's lock: "free", "tx" or "rx"
    rx_task,      \* Inner.rx_task content: NoTask or a task handle
    rxLock,       \* holder of Inner.rx_task's lock
    tx_task,      \* Inner.tx_task content
    txLock,       \* holder of Inner.tx_task's lock
    txpc,         \* position of the owner of the Complete handle
    rxpc,         \* position of the owner of the Oneshot handle
    txLocal,      \* locals of the running Complete operation
    rxLocal,      \* locals of the running Oneshot operation
    txResults,    \* what the poll_cancel() calls returned, in order
    rxResults,    \* what the poll() calls returned, in order
    unparked,     \* task handles on which unpark() was called
    hist,         \* bookkeeping: writes of the slot, delivered value, ...
    txNotified,   \* a producer task was unparked and not yet polled again
    rxNotified    \* a consumer task was unparked and not yet polled again

cells == <<data, dataLock, rx_task, rxLock, tx_task, txLock>>
txSide == <<txpc, txLocal, txResults, txNotified>>
rxSide == <<rxpc, rxLocal, rxResults, rxNotified>>
vars == <<complete, cells, txSide, rxSide, unparked, hist>>

\* ---- helpers -----------------------------------------------------------
\* A handle returned by task::park(): the current task and the number of
\* the call that parked it (so that two handles of one task stay apart).
Handle(task, n) == <<task[1], task[2], n>>

\* unpark() was called on a task of the consumer / of the producer.
RxWoken == \E u \in unparked : u[1] = "rx"
TxWoken == \E u \in unparked : u[1] = "tx"

TxLocalInit ==
    [t |-> None, handle |-> NoTask, task |-> NoTask, late |-> FALSE,
     woken |-> FALSE]
RxLocalInit ==
    [done |-> FALSE, handle |-> NoTask, stored |-> FALSE,
     contended |-> FALSE, woken |-> FALSE, late |-> FALSE]

\* flag: the value of the flag when poll() returns; stored: whether the
\* slot had been written when the call started; contended: the try_lock of
\* rx_task failed; woken: a consumer task had been unparked when the call
\* started; late: the destructor of the Complete handle had stored the flag
\* when the call started
PollResult(res, val, h) ==
    [res |-> res, val |-> val, handle |-> h,
     flag |-> complete, stored |-> rxLocal.stored,
     contended |-> rxLocal.contended, woken |-> rxLocal.woken,
     late |-> rxLocal.late]
\* late: the destructor of the Oneshot handle had stored the flag when the
\* call started; woken: a producer task had been unparked when it started
\* (a call that returns on the fast path starts and returns in one step)
CancelResult(res, path, h, late) ==
    [res |-> res, path |-> path, handle |-> h, late |-> late,
     woken |-> IF txpc = "idle" THEN TxWoken ELSE txLocal.woken]

\* The destructor of the Complete handle has stored the flag (line 185).
TxFlagged == txpc \in {"d_lock", "d_take", "d_unpark", "gone"}

\* The destructor of the Oneshot handle has stored the flag (line 260).
RxFlagged == rxpc \in {"o_rxlock", "o_rxtake", "o_txlock", "o_txtake", "o_unpark", "gone"}

\* ---- oneshot() ---------------------------------------------------------
Init ==
    /\ complete = FALSE
    /\ data = None
    /\ dataLock = "free"
    /\ rx_task = NoTask
    /\ rxLock = "free"
    /\ tx_task = NoTask
    /\ txLock = "free"
    /\ txpc = "idle"
    /\ rxpc = "idle"
    /\ txLocal = TxLocalInit
    /\ rxLocal = RxLocalInit
    /\ txResults = <<>>
    /\ rxResults = <<>>
    /\ unparked = {}
    /\ hist = [writes |-> 0, delivered |-> None, txPanic |-> FALSE,
               txStarted |-> 0, rxStarted |-> 0, discarded |-> {},
               taken |-> <<>>]
    /\ txNotified = FALSE
    /\ rxNotified = FALSE

\* ---- Complete::poll_cancel ---------------------------------------------
\* line 139: the fast path, the first load of the flag
PollCancelLoad ==
    /\ txpc = "idle"
    /\ hist.txStarted < MaxPollCancels \/ txNotified
    /\ hist' = [hist EXCEPT !.txStarted = @ + 1]
    /\ txNotified' = FALSE
    /\ txLocal' = [TxLocalInit EXCEPT !.late = RxFlagged, !.woken = TxWoken]
    /\ IF complete
         THEN /\ txpc' = "idle"
              /\ txResults' = Append(txResults,
                     CancelResult("Ready", "fast", NoTask, RxFlagged))
         ELSE /\ txpc' = "pc_park"
              /\ UNCHANGED txResults
    /\ UNCHANGED <<complete, cells, rxSide, unparked>>

\* lines 156-159: park the current task and try to lock tx_task
PollCancelPark ==
    /\ txpc = "pc_park"
    /\ \E task \in TxTasks :
         IF txLock = "free"
           THEN /\ txLock' = "tx"
                /\ txLocal' = [txLocal EXCEPT !.handle = Handle(task, hist.txStarted)]
                /\ txpc' = "pc_store"
                /\ UNCHANGED txResults
           ELSE /\ txpc' = "idle"
                /\ txResults' = Append(txResults,
                       CancelResult("Ready", "contended", NoTask, txLocal.late))
                /\ UNCHANGED <<txLock, txLocal>>
    /\ UNCHANGED <<complete, data, dataLock, rx_task, rxLock, tx_task,
                   txNotified, rxSide, unparked, hist>>

\* line 158: store the handle; the guard is released at the end of the arm
PollCancelStore ==
    /\ txpc = "pc_store"
    /\ tx_task' = txLocal.handle
    /\ txLock' = "free"
    /\ txpc' = "pc_check"
    /\ UNCHANGED <<complete, data, dataLock, rx_task, rxLock, txLocal,
                   txResults, txNotified, rxSide, unparked, hist>>

\* (variant: the flag is not read again after the handle is stored)
PollCancelDecideNoRecheck(c) == FALSE

\* (variant: the test of the second load is inverted)
PollCancelDecideInverted(c) == ~c

\* line 161: the second load of the flag decides
PollCancelDecide(c) == c

\* lines 161-165
PollCancelCheck ==
    /\ txpc = "pc_check"
    /\ txpc' = "idle"
    /\ txResults' = Append(txResults,
            CancelResult(IF PollCancelDecide(complete) THEN "Ready" ELSE "NotReady",
                         "recheck", txLocal.handle, txLocal.late))
    /\ UNCHANGED <<complete, cells, txLocal, txNotified, rxSide, unparked, hist>>

\* ---- Complete::complete ------------------------------------------------
\* (variant: complete() flags the completion before it stores the value)
CompleteLockFlagFirst ==
    /\ txpc = "idle"
    /\ complete' = TRUE
    /\ \E t \in Values :
         /\ txLocal' = [TxLocalInit EXCEPT !.t = t]
         /\ dataLock = "free"
         /\ dataLock' = "tx"
         /\ txpc' = "c_store"
         /\ hist' = [hist EXCEPT !.delivered = t]
    /\ UNCHANGED <<data, rx_task, rxLock, tx_task, txLock,
                   txResults, txNotified, rxSide, unparked>>

\* line 109: data.try_lock().unwrap(); a panic unwinds into the destructor
CompleteLock ==
    /\ txpc = "idle"
    /\ \E t \in Values :
         /\ txLocal' = [TxLocalInit EXCEPT !.t = t]
         /\ IF dataLock = "free"
              THEN /\ dataLock' = "tx"
                   /\ txpc' = "c_store"
                   /\ hist' = [hist EXCEPT !.delivered = t]
              ELSE /\ txpc' = "d_store"
                   /\ hist' = [hist EXCEPT !.delivered = t, !.txPanic = TRUE]
                   /\ UNCHANGED dataLock
    /\ UNCHANGED <<complete, data, rx_task, rxLock, tx_task, txLock,
                   txResults, txNotified, rxSide, unparked>>

\* (variant: complete() sets the flag once the value is stored)
CompleteStoreFlag ==
    /\ txpc = "c_store"
    /\ dataLock' = "free"
    /\ txpc' = "d_store"
    /\ complete' = TRUE
    /\ data' = txLocal.t
    /\ hist' = [hist EXCEPT !.writes = @ + 1]
    /\ UNCHANGED <<rx_task, rxLock, tx_task, txLock, txLocal,
                   txResults, txNotified, rxSide, unparked>>

\* lines 110-112: assert the slot is empty, write it, release the guard
CompleteStore ==
    /\ txpc = "c_store"
    /\ dataLock' = "free"
    /\ txpc' = "d_store"
    /\ IF data = None
         THEN /\ data' = txLocal.t
              /\ hist' = [hist EXCEPT !.writes = @ + 1]
         ELSE /\ hist' = [hist EXCEPT !.txPanic = TRUE]
              /\ UNCHANGED data
    /\ UNCHANGED <<complete, rx_task, rxLock, tx_task, txLock, txLocal,
                   txResults, txNotified, rxSide, unparked>>

\* ---- Drop for Complete -------------------------------------------------
\* (variant: the destructor clears the producer's own registration)
CompleteDropStoreClears ==
    /\ txpc \in {"idle", "d_store"}
    /\ complete' = TRUE
    /\ tx_task' = NoTask
    /\ txpc' = "d_lock"
    /\ UNCHANGED <<data, dataLock, rx_task, rxLock, txLock, txLocal,
                   txResults, txNotified, rxSide, unparked, hist>>

\* (variant: the destructor leaves the flag alone)
CompleteDropStoreMissing ==
    /\ txpc \in {"idle", "d_store"}
    /\ txpc' = "d_lock"
    /\ UNCHANGED <<complete, cells, txLocal, txResults, txNotified, rxSide,
                   unparked, hist>>

\* (variant: the flag records whether a value was stored)
CompleteDropStoreDelivered ==
    /\ txpc \in {"idle", "d_store"}
    /\ complete' = (data # None)
    /\ txpc' = "d_lock"
    /\ UNCHANGED <<cells, txLocal, txResults, txNotified, rxSide, unparked, hist>>

\* line 185: runs when the handle is dropped, or at the end of complete()
CompleteDropStore ==
    /\ txpc \in {"idle", "d_store"}
    /\ complete' = TRUE
    /\ txpc' = "d_lock"
    /\ UNCHANGED <<cells, txLocal, txResults, txNotified, rxSide, unparked, hist>>

\* (variant: a blocking lock() in place of try_lock())
CompleteDropLockBlocking ==
    /\ txpc = "d_lock"
    /\ rxLock = "free"
    /\ rxLock' = "tx"
    /\ txpc' = "d_take"
    /\ UNCHANGED <<complete, data, dataLock, rx_task, tx_task, txLock,
                   txLocal, txResults, txNotified, rxSide, unparked, hist>>

\* line 186: rx_task.try_lock()
CompleteDropLock ==
    /\ txpc = "d_lock"
    /\ IF rxLock = "free"
         THEN rxLock' = "tx" /\ txpc' = "d_take"
         ELSE txpc' = "gone" /\ UNCHANGED rxLock
    /\ UNCHANGED <<complete, data, dataLock, rx_task, tx_task, txLock,
                   txLocal, txResults, txNotified, rxSide, unparked, hist>>

\* lines 187-188: slot.take(), then the guard is released
CompleteDropTake ==
    /\ txpc = "d_take"
    /\ rxLock' = "free"
    /\ rx_task' = NoTask
    /\ IF rx_task # NoTask
         THEN /\ txLocal' = [txLocal EXCEPT !.task = rx_task]
              /\ hist' = [hist EXCEPT !.taken = Append(@, rx_task)]
              /\ txpc' = "d_unpark"
         ELSE /\ txpc' = "gone"
              /\ UNCHANGED <<txLocal, hist>>
    /\ UNCHANGED <<complete, data, dataLock, tx_task, txLock,
                   txResults, txNotified, rxSide, unparked>>

\* line 189: task.unpark()
CompleteDropUnpark ==
    /\ txpc = "d_unpark"
    /\ unparked' = unparked \cup {txLocal.task}
    /\ rxNotified' = TRUE
    /\ txpc' = "gone"
    /\ UNCHANGED <<complete, cells, txLocal, txResults, txNotified,
                   rxpc, rxLocal, rxResults, hist>>

\* ---- Oneshot::poll -----------------------------------------------------
\* line 227: the first load of the flag
PollLoad ==
    /\ rxpc = "idle"
    /\ hist.rxStarted < MaxPolls \/ rxNotified
    /\ hist' = [hist EXCEPT !.rxStarted = @ + 1]
    /\ rxNotified' = FALSE
    /\ IF complete
         THEN /\ rxLocal' = [RxLocalInit EXCEPT !.done = TRUE,
                                                !.stored = (hist.writes > 0),
                                                !.woken = RxWoken,
                                                !.late = TxFlagged]
              /\ rxpc' = "p_check"
         ELSE /\ rxLocal' = [RxLocalInit EXCEPT !.stored = (hist.writes > 0),
                                                !.woken = RxWoken,
                                                !.late = TxFlagged]
              /\ rxpc' = "p_park"
    /\ UNCHANGED <<complete, cells, txSide, rxResults, unparked>>

\* lines 230-234: park the current task and try to lock rx_task
PollPark ==
    /\ rxpc = "p_park"
    /\ \E task \in RxTasks :
         IF rxLock = "free"
           THEN /\ rxLock' = "rx"
                /\ rxLocal' = [rxLocal EXCEPT !.handle = Handle(task, hist.rxStarted)]
                /\ rxpc' = "p_store"
           ELSE /\ rxLocal' = [rxLocal EXCEPT !.done = TRUE, !.contended = TRUE]
                /\ rxpc' = "p_check"
                /\ UNCHANGED rxLock
    /\ UNCHANGED <<complete, data, dataLock, rx_task, tx_task, txLock,
                   txSide, rxResults, rxNotified, unparked, hist>>

\* (variant: a handle already in the slot is kept)
PollStoreKeepFirst ==
    /\ rxpc = "p_store"
    /\ rx_task' = IF rx_task = NoTask THEN rxLocal.handle ELSE rx_task
    /\ rxLock' = "free"
    /\ rxpc' = "p_check"
    /\ UNCHANGED <<complete, data, dataLock, tx_task, txLock, txSide,
                   rxLocal, rxResults, rxNotified, unparked, hist>>

\* line 232: store the handle; the guard is released at the end of the arm
PollStore ==
    /\ rxpc = "p_store"
    /\ rx_task' = rxLocal.handle
    /\ rxLock' = "free"
    /\ rxpc' = "p_check"
    /\ UNCHANGED <<complete, data, dataLock, tx_task, txLock, txSide,
                   rxLocal, rxResults, rxNotified, unparked, hist>>

\* (variant: the flag is not read again after the handle is stored)
PollDecideNoRecheck(done, c) == done

\* (variant: the slot is looked at whatever the flag says)
PollDecideEager(done, c) == TRUE

\* line 245: done || complete.load()
PollDecide(done, c) == done \/ c

\* (variant: a value seen in the slot counts as completion)
PollCheckPeek ==
    /\ rxpc = "p_check"
    /\ IF rxLocal.done \/ complete \/ data # None
         THEN rxpc' = "p_data" /\ UNCHANGED rxResults
         ELSE /\ rxpc' = "idle"
              /\ rxResults' = Append(rxResults, PollResult("NotReady", None, rxLocal.handle))
    /\ UNCHANGED <<complete, cells, txSide, rxLocal, rxNotified, unparked, hist>>

\* lines 245, 250-252
PollCheck ==
    /\ rxpc = "p_check"
    /\ IF PollDecide(rxLocal.done, complete)
         THEN rxpc' = "p_data" /\ UNCHANGED rxResults
         ELSE /\ rxpc' = "idle"
              /\ rxResults' = Append(rxResults, PollResult("NotReady", None, rxLocal.handle))
    /\ UNCHANGED <<complete, cells, txSide, rxLocal, rxNotified, unparked, hist>>

\* line 246: data.try_lock().unwrap()
PollDataLock ==
    /\ rxpc = "p_data"
    /\ IF dataLock = "free"
         THEN dataLock' = "rx" /\ rxpc' = "p_take" /\ UNCHANGED rxResults
         ELSE /\ rxpc' = "idle"
              /\ rxResults' = Append(rxResults, PollResult("panic", None, NoTask))
              /\ UNCHANGED dataLock
    /\ UNCHANGED <<complete, data, rx_task, rxLock, tx_task, txLock, txSide,
                   rxLocal, rxNotified, unparked, hist>>

\* (variant: the content is read but left in the slot)
PollTakeKeep ==
    /\ rxpc = "p_take"
    /\ dataLock' = "free"
    /\ rxpc' = "idle"
    /\ rxResults' = Append(rxResults,
            IF data # None THEN PollResult("Ready", data, NoTask)
                           ELSE PollResult("Canceled", None, NoTask))
    /\ UNCHANGED <<complete, data, rx_task, rxLock, tx_task, txLock, txSide,
                   rxLocal, rxNotified, unparked, hist>>

\* lines 246-249: take() the content, release the guard, return
PollTake ==
    /\ rxpc = "p_take"
    /\ data' = None
    /\ dataLock' = "free"
    /\ rxpc' = "idle"
    /\ rxResults' = Append(rxResults,
            IF data # None THEN PollResult("Ready", data, NoTask)
                           ELSE PollResult("Canceled", None, NoTask))
    /\ UNCHANGED <<complete, rx_task, rxLock, tx_task, txLock, txSide,
                   rxLocal, rxNotified, unparked, hist>>

\* ---- Drop for Oneshot --------------------------------------------------
\* (variant: the destructor leaves the flag alone)
OneshotDropStoreMissing ==
    /\ rxpc = "idle"
    /\ rxpc' = "o_rxlock"
    /\ UNCHANGED <<complete, cells, txSide, rxLocal, rxResults, rxNotified,
                   unparked, hist>>

\* line 260
OneshotDropStore ==
    /\ rxpc = "idle"
    /\ complete' = TRUE
    /\ rxpc' = "o_rxlock"
    /\ UNCHANGED <<cells, txSide, rxLocal, rxResults, rxNotified, unparked, hist>>

\* line 266: rx_task.try_lock()
OneshotDropRxLock ==
    /\ rxpc = "o_rxlock"
    /\ IF rxLock = "free"
         THEN rxLock' = "rx" /\ rxpc' = "o_rxtake"
         ELSE rxpc' = "o_txlock" /\ UNCHANGED rxLock
    /\ UNCHANGED <<complete, data, dataLock, rx_task, tx_task, txLock, txSide,
                   rxLocal, rxResults, rxNotified, unparked, hist>>

\* (variant: the handle found in rx_task is unparked like the one of tx_task)
OneshotDropRxTakeWakes ==
    /\ rxpc = "o_rxtake"
    /\ rx_task' = NoTask
    /\ rxLock' = "free"
    /\ rxpc' = "o_txlock"
    /\ unparked' = IF rx_task # NoTask THEN unparked \cup {rx_task} ELSE unparked
    /\ hist' = IF rx_task # NoTask
                 THEN [hist EXCEPT !.discarded = @ \cup {rx_task},
                                   !.taken = Append(@, rx_task)]
                 ELSE hist
    /\ UNCHANGED <<complete, data, dataLock, tx_task, txLock, txSide,
                   rxLocal, rxResults, rxNotified>>

\* lines 267-269: take the handle, release the guard, drop the handle
OneshotDropRxTake ==
    /\ rxpc = "o_rxtake"
    /\ rx_task' = NoTask
    /\ rxLock' = "free"
    /\ rxpc' = "o_txlock"
    /\ hist' = IF rx_task # NoTask
                 THEN [hist EXCEPT !.discarded = @ \cup {rx_task},
                                   !.taken = Append(@, rx_task)]
                 ELSE hist
    /\ UNCHANGED <<complete, data, dataLock, tx_task, txLock, txSide,
                   rxLocal, rxResults, rxNotified, unparked>>

\* line 279: tx_task.try_lock()
OneshotDropTxLock ==
    /\ rxpc = "o_txlock"
    /\ IF txLock = "free"
         THEN txLock' = "rx" /\ rxpc' = "o_txtake"
         ELSE rxpc' = "gone" /\ UNCHANGED txLock
    /\ UNCHANGED <<complete, data, dataLock, rx_task, rxLock, tx_task, txSide,
                   rxLocal, rxResults, rxNotified, unparked, hist>>

\* lines 280-281: handle.take(), then the guard is released
OneshotDropTxTake ==
    /\ rxpc = "o_txtake"
    /\ tx_task' = NoTask
    /\ txLock' = "free"
    /\ IF tx_task # NoTask
         THEN /\ rxLocal' = [rxLocal EXCEPT !.handle = tx_task]
              /\ hist' = [hist EXCEPT !.taken = Append(@, tx_task)]
              /\ rxpc' = "o_unpark"
         ELSE /\ rxpc' = "gone"
              /\ UNCHANGED <<rxLocal, hist>>
    /\ UNCHANGED <<complete, data, dataLock, rx_task, rxLock, txSide,
                   rxResults, rxNotified, unparked>>

\* line 282: task.unpark()
OneshotDropUnpark ==
    /\ rxpc = "o_unpark"
    /\ unparked' = unparked \cup {rxLocal.handle}
    /\ txNotified' = TRUE
    /\ rxpc' = "gone"
    /\ UNCHANGED <<complete, cells, txpc, txLocal, txResults,
                   rxLocal, rxResults, rxNotified, hist>>

\* ---- the two owners ----------------------------------------------------
TxNext ==
    \/ PollCancelLoad
    \/ PollCancelPark
    \/ PollCancelStore
    \/ PollCancelCheck
    \/ CompleteLock
    \/ CompleteStore
    \/ CompleteDropStore
    \/ CompleteDropLock
    \/ CompleteDropTake
    \/ CompleteDropUnpark

RxNext ==
    \/ PollLoad
    \/ PollPark
    \/ PollStore
    \/ PollCheck
    \/ PollDataLock
    \/ PollTake
    \/ OneshotDropStore
    \/ OneshotDropRxLock
    \/ OneshotDropRxTake
    \/ OneshotDropTxLock
    \/ OneshotDropTxTake
    \/ OneshotDropUnpark

Next == TxNext \/ RxNext

Spec == Init /\ [][Next]_vars

\* Each started operation runs to its end, and a task that was unparked is
\* polled again; nothing else is assumed (no spurious poll, no drop).
TxContinue == txpc # "idle" /\ TxNext
RxContinue == rxpc # "idle" /\ RxNext
RxRepoll == rxNotified /\ PollLoad
LiveSpec ==
    /\ Init /\ [][Next]_vars
    /\ WF_vars(TxContinue)
    /\ WF_vars(RxContinue)
    /\ WF_vars(RxRepoll)

\* ---- the variant without the fast path ----------------------------------
\* poll_cancel() without the load of line 139: lines 156-165 only
PollCancelLoadSkip ==
    /\ txpc = "idle"
    /\ hist.txStarted < MaxPollCancels \/ txNotified
    /\ hist' = [hist EXCEPT !.txStarted = @ + 1]
    /\ txNotified' = FALSE
    /\ txLocal' = [TxLocalInit EXCEPT !.late = RxFlagged, !.woken = TxWoken]
    /\ txpc' = "pc_park"
    /\ UNCHANGED <<complete, cells, txResults, rxSide, unparked>>

\* poll() without the load of line 227: lines 230-252 only
PollLoadSkip ==
    /\ rxpc = "idle"
    /\ hist.rxStarted < MaxPolls \/ rxNotified
    /\ hist' = [hist EXCEPT !.rxStarted = @ + 1]
    /\ rxNotified' = FALSE
    /\ rxLocal' = [RxLocalInit EXCEPT !.stored = (hist.writes > 0),
                                      !.woken = RxWoken,
                                      !.late = TxFlagged]
    /\ rxpc' = "p_park"
    /\ UNCHANGED <<complete, cells, txSide, rxResults, unparked>>

TxNextSkip ==
    \/ PollCancelLoadSkip
    \/ PollCancelPark
    \/ PollCancelStore
    \/ PollCancelCheck
    \/ CompleteLock
    \/ CompleteStore
    \/ CompleteDropStore
    \/ CompleteDropLock
    \/ CompleteDropTake
    \/ CompleteDropUnpark

RxNextSkip ==
    \/ PollLoadSkip
    \/ PollPark
    \/ PollStore
    \/ PollCheck
    \/ PollDataLock
    \/ PollTake
    \/ OneshotDropStore
    \/ OneshotDropRxLock
    \/ OneshotDropRxTake
    \/ OneshotDropTxLock
    \/ OneshotDropTxTake
    \/ OneshotDropUnpark

NextSkip == TxNextSkip \/ RxNextSkip

SkipSpec == Init /\ [][NextSkip]_vars

\* ---- vocabulary of the properties --------------------------------------
Terminal == {"Ready", "Canceled"}
RxDropping == RxFlagged
TxDropping == txpc \in {"d_lock", "d_take", "d_unpark", "gone"}
LastRx == rxResults[Len(rxResults)]
LastTx == txResults[Len(txResults)]
RxGotTerminal == \E i \in DOMAIN rxResults : rxResults[i].res \in Terminal
RxGotReady == \E i \in DOMAIN rxResults : rxResults[i].res = "Ready"
RxGotPending == \E i \in DOMAIN rxResults : rxResults[i].res = "NotReady"

\* C1 (state part): Complete::drop has finished, the consumer is alive and
\* idle and its last poll() returned NotReady: then the handle that poll
\* registered was unparked.
C1_NoLostWakeup ==
    (txpc = "gone" /\ rxpc = "idle" /\ rxResults # <<>> /\ LastRx.res = "NotReady")
        => LastRx.handle \in unparked

\* C1: no missed wakeup on the consumer side.  Once a poll() has returned
\* NotReady and the producer handle is gone, the consumer gets a terminal
\* outcome from poll() (unless it drops its handle instead), and the state
\* of C1_NoLostWakeup never arises.
C1_ConsumerWoken ==
    /\ []C1_NoLostWakeup
    /\ (RxGotPending /\ txpc = "gone") ~> (RxGotTerminal \/ RxDropping)

\* a poll() returned NotReady, its handle was unparked by Complete::drop and
\* a later poll() returned a terminal outcome
C1_Witness ==
    /\ txpc = "gone"
    /\ \E i, j \in DOMAIN rxResults :
         /\ i < j
         /\ rxResults[i].res = "NotReady"
         /\ rxResults[i].handle \in unparked
         /\ rxResults[j].res \in Terminal

\* C2: the value slot is written at most once, at most one poll() returns
\* Ready, and the value it returns is the one passed to complete().
C2_AtMostOnce ==
    /\ hist.writes <= 1
    /\ Cardinality({i \in DOMAIN rxResults : rxResults[i].res = "Ready"}) <= 1
    /\ \A i \in DOMAIN rxResults :
         rxResults[i].res = "Ready" =>
            rxResults[i].val # None /\ rxResults[i].val = hist.delivered

\* a poll() returned Ready and another poll() returned after it
C2_Witness ==
    \E i \in DOMAIN rxResults :
        /\ rxResults[i].res = "Ready"
        /\ i < Len(rxResults)
        /\ hist.writes = 1

FirstTerminal(i) ==
    /\ rxResults[i].res \in Terminal
    /\ \A j \in 1 .. (i - 1) : rxResults[j].res \notin Terminal

\* C3: the first terminal outcome of poll() is Ready(v) exactly when the
\* producer called complete(v) before its handle was destroyed, and
\* Canceled exactly when the handle was destroyed without complete().
C3_OutcomeByProducer ==
    \A i \in DOMAIN rxResults :
        FirstTerminal(i) =>
            /\ TxDropping
            /\ (rxResults[i].res = "Ready") <=> (hist.delivered # None)
            /\ (rxResults[i].res = "Canceled") <=> (hist.delivered = None)
            /\ rxResults[i].val = hist.delivered

\* a poll() returned NotReady while the producer was alive, the producer
\* was dropped without complete(), and the next poll() returned Canceled
C3_Witness ==
    /\ rxResults # <<>>
    /\ FirstTerminal(Len(rxResults))
    /\ LastRx.res = "Canceled"
    /\ Len(rxResults) > 1

TxPolling == txpc \in {"pc_park", "pc_store", "pc_check"}

\* C4 as stated: Oneshot::drop has finished and the last poll_cancel() that
\* returned gave NotReady: then the handle it stored was unparked.
C4_AsStated ==
    (rxpc = "gone" /\ txResults # <<>> /\ LastTx.res = "NotReady")
        => LastTx.handle \in unparked

\* C4 (amended): no missed wakeup on the producer side.  Oneshot::drop has
\* finished, the last poll_cancel() returned NotReady and the producer is
\* not inside a later poll_cancel(): then the handle that call stored was
\* unparked; and a poll_cancel() that starts once the destructor has set
\* the flag returns Ready on the fast path, storing no handle.
C4_ProducerWoken ==
    /\ (rxpc = "gone" /\ ~TxPolling /\ txResults # <<>> /\ LastTx.res = "NotReady")
          => LastTx.handle \in unparked
    /\ \A i \in DOMAIN txResults :
          txResults[i].late =>
             /\ txResults[i].res = "Ready"
             /\ txResults[i].path = "fast"
             /\ txResults[i].handle = NoTask

\* poll_cancel() returned NotReady, the consumer was dropped and unparked
\* the stored handle, and the next poll_cancel() returned Ready
C4_Witness ==
    /\ rxpc = "gone"
    /\ \E i \in DOMAIN txResults :
         /\ txResults[i].res = "NotReady"
         /\ txResults[i].handle \in unparked
         /\ i < Len(txResults)
         /\ txResults[i + 1].res = "Ready"
         /\ txResults[i + 1].path = "fast"

\* C5: a poll_cancel() that starts after the destructor of the Oneshot
\* handle has set the flag returns Ready, whatever happened before.
C5_ReadyAfterDrop ==
    \A i \in DOMAIN txResults : txResults[i].late => txResults[i].res = "Ready"

\* a poll_cancel() that returned NotReady is followed by one that started
\* after the flag was set, after the consumer had polled as well
C5_Witness ==
    /\ Len(txResults) >= 2
    /\ txResults[1].res = "NotReady"
    /\ LastTx.late
    /\ rxResults # <<>>

\* C6: poll_cancel() returns Ready only once the destructor of the Oneshot
\* handle has set the flag; while the consumer handle is alive and not
\* being dropped every poll_cancel() that has returned gave NotReady.
C6_ReadyOnlyIfDropped ==
    \A i \in DOMAIN txResults : txResults[i].res = "Ready" => RxFlagged

\* a poll_cancel() ran to its end with the consumer alive and polling, and
\* returned NotReady
C6_Witness ==
    /\ ~RxFlagged
    /\ rxpc \in {"p_park", "p_store", "p_check"}
    /\ txResults # <<>>
    /\ LastTx.res = "NotReady"

\* C7: complete(v) never fails.  While the producer handle exists and is
\* idle the value slot is unlocked and empty, so the try_lock of line 109
\* succeeds and the assertion of line 110 holds; no panic was recorded.
C7_CompleteNeverFails ==
    /\ txpc \in {"idle", "pc_park", "pc_store", "pc_check"} =>
          dataLock = "free" /\ data = None
    /\ txpc = "c_store" => dataLock = "tx" /\ data = None
    /\ ~hist.txPanic

\* complete() is inside its critical section while the consumer is in the
\* middle of a poll() or of its destructor
C7_Witness ==
    /\ txpc = "c_store"
    /\ rxpc \in {"p_store", "p_check", "o_rxtake", "o_txlock"}

\* C8: the flag starts false and no step takes it from true to false.
C8_FlagMonotonic ==
    /\ complete = FALSE
    /\ [][complete => complete']_vars

\* the second destructor has stored the flag as well
C8_Witness ==
    /\ complete
    /\ TxDropping
    /\ RxFlagged

TxRank ==
    [idle |-> 0, pc_park |-> 1, pc_store |-> 2, pc_check |-> 3, c_store |-> 1,
     d_store |-> 2, d_lock |-> 3, d_take |-> 4, d_unpark |-> 5, gone |-> 6]
RxRank ==
    [idle |-> 0, p_park |-> 1, p_store |-> 2, p_check |-> 3, p_data |-> 4,
     p_take |-> 5, o_rxlock |-> 1, o_rxtake |-> 2, o_txlock |-> 3,
     o_txtake |-> 4, o_unpark |-> 5, gone |-> 6]

\* a started operation can always take its next step
C9_CanStep ==
    /\ txpc \notin {"idle", "gone"} => ENABLED TxNext
    /\ rxpc \notin {"idle", "gone"} => ENABLED RxNext

\* every step of an operation moves it forward: it returns, or it reaches
\* a later position of the same operation (no retry, no loop)
C9_Forward ==
    /\ txpc' # txpc => txpc' = "idle" \/ TxRank[txpc'] > TxRank[txpc]
    /\ rxpc' # rxpc => rxpc' = "idle" \/ RxRank[rxpc'] > RxRank[rxpc]

\* C9: no operation blocks or retries.  A started operation is never
\* unable to take its next step, and it ends within the fixed number of
\* steps its positions allow, whatever the other side is doing.
C9_NoBlocking ==
    /\ []C9_CanStep
    /\ [][C9_Forward]_vars

\* both destructors run at once and Oneshot::drop is about to try the
\* rx_task lock that Complete::drop holds
C9_Witness ==
    /\ txpc = "d_take"
    /\ rxpc = "o_rxlock"
    /\ rxLock = "tx"

\* C10: poll() returns Ready or Canceled only in a state where the flag is
\* set; a poll() that returns while the flag is still false, also when the
\* value was stored before the call started, returns NotReady.
C10_TerminalNeedsFlag ==
    \A i \in DOMAIN rxResults :
        /\ rxResults[i].res \in Terminal => rxResults[i].flag
        /\ ~rxResults[i].flag => rxResults[i].res = "NotReady"

\* a poll() that started after complete() had stored the value returned
\* NotReady, and a later one returned Ready
C10_Witness ==
    \E i, j \in DOMAIN rxResults :
        /\ i < j
        /\ rxResults[i].stored
        /\ rxResults[i].res = "NotReady"
        /\ rxResults[j].res = "Ready"

\* C11: the try_lock of the value slot in poll() never fails.  Whenever
\* poll() stands before line 246 the slot is unlocked and the producer is
\* not inside complete(); no poll() ended in a panic.
C11_DataLockFree ==
    /\ rxpc = "p_data" => dataLock = "free" /\ txpc # "c_store"
    /\ \A i \in DOMAIN rxResults : rxResults[i].res # "panic"

\* poll() got to the value slot both ways: after it saw the flag, and
\* after its try_lock of rx_task failed
C11_Witness ==
    \E i, j \in DOMAIN rxResults :
        /\ rxResults[i].res \in Terminal
        /\ rxResults[i].contended
        /\ rxResults[j].res \in Terminal
        /\ ~rxResults[j].contended

\* C12: whenever the try_lock of rx_task inside poll() fails, the holder is
\* the destructor of the Complete handle, which has already stored the
\* flag, and the value slot holds its final content: the delivered value,
\* or nothing if complete() was not called.
C12_PollContention ==
    (rxpc = "p_park" /\ rxLock # "free") =>
        /\ rxLock = "tx"
        /\ txpc = "d_take"
        /\ complete
        /\ dataLock = "free"
        /\ data = hist.delivered

\* a poll() whose try_lock failed went on to the value slot with the flag
\* set and found the delivered value
C12_Witness ==
    /\ rxResults # <<>>
    /\ LastRx.contended
    /\ LastRx.res = "Ready"
    /\ LastRx.val = hist.delivered

\* C13: whenever the try_lock of tx_task inside poll_cancel() fails, the
\* holder is the destructor of the Oneshot handle, which has already
\* stored the flag.
C13_PollCancelContention ==
    (txpc = "pc_park" /\ txLock # "free") =>
        /\ txLock = "rx"
        /\ rxpc = "o_txtake"
        /\ complete

\* a poll_cancel() returned Ready because its try_lock failed
C13_Witness ==
    /\ txResults # <<>>
    /\ LastTx.path = "contended"
    /\ LastTx.res = "Ready"
    /\ ~LastTx.late

\* C14: wake follows flag.  Every unpark() is called in a state where the
\* flag is set, by the destructor of the other handle; hence a poll() that
\* starts after a consumer task was unparked, and a poll_cancel() that
\* starts after a producer task was unparked, never returns NotReady.
C14_WakeFollowsFlag ==
    /\ [][unparked' # unparked =>
            /\ complete
            /\ \A u \in unparked' \ unparked :
                 \/ u[1] = "rx" /\ txpc = "d_unpark"
                 \/ u[1] = "tx" /\ rxpc = "o_unpark"]_vars
    /\ [](\A i \in DOMAIN rxResults :
             rxResults[i].woken => rxResults[i].res # "NotReady")
    /\ [](\A i \in DOMAIN txResults :
             txResults[i].woken => txResults[i].res # "NotReady")

\* a poll() that returned NotReady was unparked by Complete::drop, and the
\* poll() that started after the unpark returned a terminal outcome
C14_Witness ==
    \E i \in DOMAIN rxResults :
        /\ rxResults[i].woken
        /\ rxResults[i].res \in Terminal
        /\ i > 1
        /\ rxResults[i - 1].res = "NotReady"
        /\ rxResults[i - 1].handle \in unparked

\* a step of complete(): the producer moves into or out of lines 109-112
CompleteStep == txpc' # txpc /\ (txpc' = "c_store" \/ txpc = "c_store")

\* a step of the producer that sets the flag or unparks a task
TxSignals == txpc' # txpc /\ (complete' # complete \/ unparked' # unparked)

CancelOutcomeLaw ==
    \A i \in DOMAIN txResults :
        /\ txResults[i].late => txResults[i].res = "Ready"
        /\ txResults[i].res = "Ready" => RxFlagged

\* what the original poll() returns: a terminal outcome for a call that
\* starts once Complete::drop has stored the flag, a terminal outcome only
\* with the flag set, the delivered value in the first terminal outcome
\* and Canceled after it, and never a panic
PollOutcomeLaw ==
    /\ \A i \in DOMAIN rxResults :
          /\ rxResults[i].late => rxResults[i].res \in Terminal
          /\ rxResults[i].res \in Terminal => rxResults[i].flag
          /\ rxResults[i].res # "panic"
          /\ FirstTerminal(i) =>
                /\ rxResults[i].val = hist.delivered
                /\ (rxResults[i].res = "Ready") <=> (hist.delivered # None)
          /\ \A j \in 1 .. (i - 1) :
                rxResults[j].res \in Terminal => rxResults[i].res = "Canceled"
    /\ ~hist.txPanic

\* no handle of a NotReady call is left without its unpark once the other
\* side is gone and the caller is idle
NoMissedWakeup ==
    /\ C1_NoLostWakeup
    /\ (rxpc = "gone" /\ ~TxPolling /\ txResults # <<>> /\ LastTx.res = "NotReady")
          => LastTx.handle \in unparked

\* C16: the fast path is only an optimisation.  With poll() and
\* poll_cancel() always parking, storing and re-checking, every call
\* returns what the original returns in the same situation, no unwrap or
\* assertion fails, and no wakeup is missed.
C16_FastPathOptional ==
    /\ CancelOutcomeLaw
    /\ PollOutcomeLaw
    /\ NoMissedWakeup

\* without the fast path, a poll() that started after Complete::drop had
\* stored the flag stored its handle and still returned the value
C16_Witness ==
    \E i \in DOMAIN rxResults :
        /\ rxResults[i].late
        /\ ~rxResults[i].contended
        /\ rxResults[i].res = "Ready"
        /\ rx_task # NoTask
        /\ rx_task[3] = i

\* C17: the destructor of the Oneshot handle never wakes the consumer's own
\* task and always tries to wake the producer's.  It stores the flag
\* first; it then empties rx_task without an unpark (or skips the slot
\* while Complete::drop holds it); it then takes and unparks what it finds
\* in tx_task; and no handle is taken out of a slot twice.
C17_OneshotDrop ==
    /\ [](RxFlagged => complete)
    /\ [](rxpc \in {"o_txlock", "o_txtake", "o_unpark", "gone"} =>
             rx_task = NoTask \/ rxLock = "tx")
    /\ [](hist.discarded \cap unparked = {})
    /\ [][rxpc' # rxpc =>
            \A u \in unparked' \ unparked : u[1] = "tx" /\ u = rxLocal.handle]_vars
    /\ [][rxpc = "o_txtake" /\ rxpc' # rxpc =>
            /\ tx_task' = NoTask
            /\ tx_task # NoTask => rxpc' = "o_unpark" /\ rxLocal'.handle = tx_task]_vars
    /\ [](rxpc = "gone" /\ txpc # "pc_store" =>
             \A i \in DOMAIN txResults :
                 txResults[i].res = "NotReady" => tx_task # txResults[i].handle)
    /\ [](\A i, j \in DOMAIN hist.taken :
             i # j => hist.taken[i] # hist.taken[j])
    /\ [](\A u \in unparked : \E i \in DOMAIN hist.taken : hist.taken[i] = u)

\* the destructor has removed a consumer handle without unparking it and
\* has unparked a producer handle
C17_Witness ==
    /\ rxpc = "gone"
    /\ hist.discarded # {}
    /\ TxWoken
    /\ ~RxWoken

\* C18: poll() is not idempotent after success.  Once a poll() has
\* returned Ready(v) the slot is empty and the flag stays set, and every
\* later poll() returns Canceled although a value was delivered.
C18_CanceledAfterReady ==
    /\ RxGotReady => complete /\ hist.delivered # None
    /\ RxGotReady /\ rxpc # "p_take" => data = None
    /\ \A i, j \in DOMAIN rxResults :
          i < j /\ rxResults[i].res = "Ready" => rxResults[j].res = "Canceled"

\* a poll() returned Ready and the next one returned Canceled
C18_Witness ==
    /\ Len(rxResults) >= 2
    /\ rxResults[Len(rxResults) - 1].res = "Ready"
    /\ LastRx.res = "Canceled"
    /\ hist.delivered # None

RxUnparked == {u \in unparked : u[1] = "rx"}
TxUnparked == {u \in unparked : u[1] = "tx"}

\* the handle stored by the last poll() that returned NotReady
LastPendingRx ==
    LET last == CHOOSE i \in DOMAIN rxResults :
                  /\ rxResults[i].res = "NotReady"
                  /\ \A j \in DOMAIN rxResults :
                        rxResults[j].res = "NotReady" => j <= i
    IN  rxResults[last].handle

\* C19 as stated: after poll() calls that returned NotReady, a consumer
\* handle that Complete::drop unparks is the one stored by the last of
\* those calls.
C19_AsStated ==
    (RxGotPending /\ RxUnparked # {}) => RxUnparked = {LastPendingRx}

\* C19 (amended): only the most recent registration is woken.  A poll() or
\* poll_cancel() that stores its handle overwrites the slot; each
\* destructor unparks at most one handle, and no call that returned
\* NotReady registered after that handle, so the handles of earlier
\* NotReady calls are never unparked; when the last call returned NotReady
\* and no later call is running, the handle unparked is the one of that
\* call.
C19_LastRegistrationWoken ==
    /\ [][rxpc = "p_store" /\ rxpc' # rxpc => rx_task' = rxLocal.handle]_vars
    /\ [][txpc = "pc_store" /\ txpc' # txpc => tx_task' = txLocal.handle]_vars
    /\ [](Cardinality(RxUnparked) <= 1 /\ Cardinality(TxUnparked) <= 1)
    /\ [](\A u \in RxUnparked : \A i \in DOMAIN rxResults :
             rxResults[i].res = "NotReady" => rxResults[i].handle[3] <= u[3])
    /\ [](\A u \in TxUnparked : \A i \in DOMAIN txResults :
             txResults[i].res = "NotReady" => txResults[i].handle[3] <= u[3])
    /\ []((txpc = "gone" /\ rxpc = "idle" /\ rxResults # <<>>
              /\ LastRx.res = "NotReady") => RxUnparked = {LastRx.handle})
    /\ []((rxpc = "gone" /\ ~TxPolling /\ txResults # <<>>
              /\ LastTx.res = "NotReady") => TxUnparked = {LastTx.handle})

\* two poll() calls from different tasks returned NotReady, and the
\* destructor of the Complete handle unparked the second handle only
C19_Witness ==
    /\ txpc = "gone"
    /\ Len(rxResults) >= 2
    /\ rxResults[1].res = "NotReady"
    /\ rxResults[2].res = "NotReady"
    /\ rxResults[1].handle[2] # rxResults[2].handle[2]
    /\ rxResults[2].handle \in unparked
    /\ rxResults[1].handle \notin unparked

\* a step of complete() or of the destructor of the Complete handle
TxLeaving ==
    /\ txpc' # txpc
    /\ txpc' \in {"c_store", "d_store", "d_lock", "d_take", "d_unpark", "gone"}

\* C20: the producer's registration outlives the producer.  complete() and
\* Complete::drop leave tx_task alone, so the handle of a poll_cancel()
\* that returned NotReady stays in the slot after the producer is gone,
\* and the drop of the consumer takes it and unparks it, also after the
\* consumer received the value.
C20_RegistrationOutlives ==
    /\ [][TxLeaving => tx_task' = tx_task /\ txLock' = txLock]_vars
    /\ []((TxFlagged /\ txResults # <<>> /\ LastTx.res = "NotReady") =>
             /\ rxpc \notin {"o_unpark", "gone"} => tx_task = LastTx.handle
             /\ rxpc = "gone" => LastTx.handle \in unparked)

\* poll_cancel() returned NotReady, the producer delivered and was dropped,
\* the consumer received the value and was dropped, and the former task of
\* the producer was unparked
C20_Witness ==
    /\ txpc = "gone"
    /\ rxpc = "gone"
    /\ hist.delivered # None
    /\ RxGotReady
    /\ txResults # <<>>
    /\ LastTx.res = "NotReady"
    /\ LastTx.handle \in unparked

====
